---- MODULE Spec2Model ----
(***************************************************************************)
(* Model of the numerical kernel of CiliaSim (src/CiliaSim/jit_functions): *)
(*   calculate_force_matrix, calculate_boundary_reflection and             *)
(*   hexagonal_grid_layout, with polygon_area as a helper.                 *)
(*                                                                         *)
(* Real numbers are kept exactly.  A scalar of the force kernel x is held  *)
(* as the integer x * Den; a unit-vector component u as u * UnitDen; a     *)
(* force component f as f * Den * UnitDen.  The sample inputs are chosen   *)
(* so that every square root and every quotient the kernel takes is exact  *)
(* in that representation.                                                 *)
(***************************************************************************)
EXTENDS Integers, Sequences, FiniteSets, TLC

VARIABLES
    \* ---- calculate_force_matrix: arguments
    num_cells, critical_length_delta, cell_types, target_areas,
    adjacency_matrix,
    \* ---- calculate_force_matrix: locals
    spring_matrix, pressure_matrix, distance_matrix, unit_vector_matrix,
    force_matrix, row, pc,
    pressure_writes,      \* history: rows that wrote each pressure entry, in order
    \* ---- calculate_boundary_reflection: arguments, result
    a, b, c, reflected, reflected_point, rpc,
    previous_c,           \* history: the point given to the call before
    calls,                \* history: number of calls made
    \* ---- hexagonal_grid_layout: argument, locals, result
    h_num_cells, num_rings, points, ring, spoke, hpc

forceVars == <<num_cells, critical_length_delta, cell_types, target_areas,
               adjacency_matrix, spring_matrix, pressure_matrix,
               distance_matrix, unit_vector_matrix, force_matrix, row, pc,
               pressure_writes>>
reflectVars == <<a, b, c, reflected, reflected_point, rpc, previous_c, calls>>
hexVars == <<h_num_cells, num_rings, points, ring, spoke, hpc>>
vars == <<forceVars, reflectVars, hexVars>>

-----------------------------------------------------------------------------
(* Bounds of the model *)

\* calculate_force_matrix: num_cells \in 1..MaxCells
MaxCells == 3
\* calculate_boundary_reflection: coordinates x \in 0..MaxX, y \in -MaxY..MaxY,
\* and at most MaxCalls calls in a row
MaxX == 10
MaxY == 1
MaxCalls == 2
\* hexagonal_grid_layout: num_cells \in -2..MaxNumCells
MaxNumCells == 20

-----------------------------------------------------------------------------
(* Exact arithmetic *)

\* common denominator of the float64 scalars: divisible by the damping
\* denominator 10 and by every neighbour count of up to 6 cells
Den == 60
\* common denominator of the unit-vector components (3-4-5 triangles)
UnitDen == 5

Abs(x) == IF x < 0 THEN -x ELSE x

Max(x, y) == IF x < y THEN y ELSE x

\* np.sqrt on a perfect square
Sqrt(n) == CHOOSE r \in 0..n : r * r = n

RECURSIVE SumSeq(_)
SumSeq(s) == IF s = <<>> THEN 0 ELSE Head(s) + SumSeq(Tail(s))

-----------------------------------------------------------------------------
(* polygon_area: Shoelace formula, 0.5 * |sum(x * shifted_y - y * shifted_x)| *)

polygon_area(vertices) ==
    LET n == Len(vertices)
        shifted(k) == vertices[(k % n) + 1]
        terms == [k \in 1..n |->
                    vertices[k][1] * shifted(k)[2] - vertices[k][2] * shifted(k)[1]]
    IN  (Den \div 2) * Abs(SumSeq(terms))

-----------------------------------------------------------------------------
(* Sample inputs of calculate_force_matrix *)

Cells == 0..(num_cells - 1)

\* cell_points: pairwise distinct, all pairwise distances integers (3, 4, 5)
cell_points == <<  <<0, 0>>, <<3, 0>>, <<0, 4>>, <<3, 4>> >>
CellPoint(k) == cell_points[k + 1]

\* voronoi_vertices[k]: the rectangle (k+1) x 1, so the areas differ per cell
voronoi_vertices(k) == << <<0, 0>>, <<k + 1, 0>>, <<k + 1, 1>>, <<0, 1>> >>

target_spring_length == 4 * Den

\* target area of every cell: 5, so every cell has its own area deficit
TargetArea == 5 * Den
\* critical_length_delta: 1/2
CriticalLengthDelta == Den \div 2
CellTypeValues == {0, 1}

ZeroMatrix(n) == [i \in 0..(n - 1) |-> [j \in 0..(n - 1) |-> 0]]
ZeroVectorMatrix(n) == [i \in 0..(n - 1) |-> [j \in 0..(n - 1) |-> <<0, 0>>]]
NoWrites(n) == [i \in 0..(n - 1) |-> [j \in 0..(n - 1) |-> <<>>]]

\* the boolean matrix whose true entries are the pairs of edges
AdjacencyOf(n, edges) ==
    [i \in 0..(n - 1) |-> [j \in 0..(n - 1) |-> <<i, j>> \in edges]]

-----------------------------------------------------------------------------
(* calculate_force_matrix, one row of the loop at a time *)

\* faulty variant of Neighbours: every other cell, whatever the adjacency matrix says
NeighboursAllOthers(i) == Cells \ {i}

\* np.nonzero(adjacency_matrix[i])[0]
Neighbours(i) == {j \in Cells : adjacency_matrix[i][j]}

\* np.sqrt((differences**2).sum(axis=1)), for one neighbour
Distance(i, j) ==
    LET dx == CellPoint(j)[1] - CellPoint(i)[1]
        dy == CellPoint(j)[2] - CellPoint(i)[2]
    IN  Den * Sqrt(dx * dx + dy * dy)

\* differences / distances[:, None], for one neighbour
UnitVector(i, j) ==
    LET dx == CellPoint(j)[1] - CellPoint(i)[1]
        dy == CellPoint(j)[2] - CellPoint(i)[2]
    IN  << (dx * Den * UnitDen) \div Distance(i, j),
           (dy * Den * UnitDen) \div Distance(i, j) >>

\* M[i, neighbours] = values, values being indexed by the neighbours
RowWrite(M, i, values) ==
    [M EXCEPT ![i] = [j \in DOMAIN M[i] |->
                        IF j \in DOMAIN values THEN values[j] ELSE M[i][j]]]

\* target_spring_length - distances
SpringValue(i, j) == target_spring_length - Distance(i, j)

\* faulty variant of HasPressure: the type test is left out
HasPressureAlways(i) == TRUE

\* if cell_types[i] != 1
HasPressure(i) == cell_types[i] # 1

\* (target_areas[i] - area) / len(neighbours)
SplitAreaDifference(i) ==
    (target_areas[i] - polygon_area(voronoi_vertices(i)))
        \div Cardinality(Neighbours(i))

\* faulty variant of PressureWrite: the symmetric write is left out
PressureWriteRowOnly(P, i, neighbours, v) ==
    [k \in DOMAIN P |-> [j \in DOMAIN P[k] |->
        IF k = i /\ j \in neighbours THEN v ELSE P[k][j]]]

\* faulty variant of PressureWrite: += instead of =
PressureAccumulate(P, i, neighbours, v) ==
    [k \in DOMAIN P |-> [j \in DOMAIN P[k] |->
        IF (k = i /\ j \in neighbours) \/ (j = i /\ k \in neighbours)
        THEN P[k][j] + v ELSE P[k][j]]]

\* pressure_matrix[i, neighbours] = v; pressure_matrix[neighbours, i] = v
PressureWrite(P, i, neighbours, v) ==
    [k \in DOMAIN P |-> [j \in DOMAIN P[k] |->
        IF (k = i /\ j \in neighbours) \/ (j = i /\ k \in neighbours)
        THEN v ELSE P[k][j]]]

\* the rows that wrote each pressure entry, after row i wrote
LogWrites(W, i, neighbours) ==
    [k \in DOMAIN W |-> [j \in DOMAIN W[k] |->
        IF (k = i /\ j \in neighbours) \/ (j = i /\ k \in neighbours)
        THEN Append(W[k][j], i) ELSE W[k][j]]]

\* faulty variant of Damp: the mask selects columns instead of rows
DampColumns(S) ==
    [i \in DOMAIN S |-> [j \in DOMAIN S[i] |->
        IF cell_types[j] = 1 THEN S[i][j] \div 10 ELSE S[i][j]]]

\* spring_matrix[cell_types == 1] *= 0.1
Damp(S) ==
    [i \in DOMAIN S |-> [j \in DOMAIN S[i] |->
        IF cell_types[i] = 1 THEN S[i][j] \div 10 ELSE S[i][j]]]

\* np.clip(spring_matrix, -critical_length_delta, None, out=spring_matrix)
Clip(S) ==
    [i \in DOMAIN S |-> [j \in DOMAIN S[i] |->
        Max(S[i][j], -critical_length_delta)]]

\* (spring_matrix + pressure_matrix)[..., None] * unit_vector_matrix
Force(S, P, U) ==
    [i \in DOMAIN S |-> [j \in DOMAIN S[i] |->
        << (S[i][j] + P[i][j]) * U[i][j][1],
           (S[i][j] + P[i][j]) * U[i][j][2] >>]]

ForceInit ==
    /\ num_cells \in 1..MaxCells
    /\ target_areas = [k \in 0..(num_cells - 1) |-> TargetArea]
    /\ critical_length_delta = CriticalLengthDelta
    /\ cell_types \in [0..(num_cells - 1) -> CellTypeValues]
    \* any adjacency matrix, symmetric or not, without self-loops
    /\ \E edges \in SUBSET {e \in (0..(num_cells - 1)) \X (0..(num_cells - 1)) :
                              e[1] # e[2]} :
         adjacency_matrix = AdjacencyOf(num_cells, edges)
    /\ spring_matrix = ZeroMatrix(num_cells)
    /\ pressure_matrix = ZeroMatrix(num_cells)
    /\ distance_matrix = ZeroMatrix(num_cells)
    /\ unit_vector_matrix = ZeroVectorMatrix(num_cells)
    /\ force_matrix = ZeroVectorMatrix(num_cells)
    /\ pressure_writes = NoWrites(num_cells)
    /\ row = 0
    /\ pc = "rows"

\* lines 57-59: a row without neighbours is skipped
SkipRow ==
    /\ pc = "rows"
    /\ row < num_cells
    /\ Neighbours(row) = {}
    /\ row' = row + 1
    /\ UNCHANGED <<num_cells, critical_length_delta, cell_types, target_areas,
                   adjacency_matrix, spring_matrix, pressure_matrix,
                   distance_matrix, unit_vector_matrix, force_matrix, pc,
                   pressure_writes>>

\* lines 61-74: one iteration of the loop over the rows
ProcessRow ==
    /\ pc = "rows"
    /\ row < num_cells
    /\ Neighbours(row) # {}
    /\ LET i == row
           neighbours == Neighbours(i)
           distances == [j \in neighbours |-> Distance(i, j)]
           unit_vectors == [j \in neighbours |-> UnitVector(i, j)]
           springs == [j \in neighbours |-> SpringValue(i, j)]
       IN  /\ distance_matrix' = RowWrite(distance_matrix, i, distances)
           /\ unit_vector_matrix' = RowWrite(unit_vector_matrix, i, unit_vectors)
           /\ spring_matrix' = RowWrite(spring_matrix, i, springs)
           /\ IF HasPressure(i)
              THEN /\ pressure_matrix' =
                        PressureWrite(pressure_matrix, i, neighbours,
                                      SplitAreaDifference(i))
                   /\ pressure_writes' =
                        LogWrites(pressure_writes, i, neighbours)
              ELSE UNCHANGED <<pressure_matrix, pressure_writes>>
    /\ row' = row + 1
    /\ UNCHANGED <<num_cells, critical_length_delta, cell_types, target_areas,
                   adjacency_matrix, force_matrix, pc>>

\* lines 76-80: damping, clipping, the force tensor, return
Finalize ==
    /\ pc = "rows"
    /\ row = num_cells
    /\ spring_matrix' = Clip(Damp(spring_matrix))
    /\ force_matrix' =
          Force(Clip(Damp(spring_matrix)), pressure_matrix, unit_vector_matrix)
    /\ pc' = "done"
    /\ UNCHANGED <<num_cells, critical_length_delta, cell_types, target_areas,
                   adjacency_matrix, pressure_matrix, distance_matrix,
                   unit_vector_matrix, row, pressure_writes>>

ReflectIdle ==
    /\ a = <<0, 0>> /\ b = <<0, 0>> /\ c = <<0, 0, 1>>
    /\ reflected = FALSE /\ reflected_point = <<0, 0, 1>> /\ rpc = "idle"
    /\ previous_c = <<0, 0, 1>> /\ calls = 0

HexIdle ==
    /\ h_num_cells = 0 /\ num_rings = 0 /\ points = <<>> /\ ring = 0
    /\ spoke = 0 /\ hpc = "idle"

ForceIdle ==
    /\ num_cells = 0 /\ critical_length_delta = 0 /\ cell_types = <<>>
    /\ target_areas = <<>> /\ adjacency_matrix = <<>>
    /\ spring_matrix = <<>> /\ pressure_matrix = <<>>
    /\ distance_matrix = <<>> /\ unit_vector_matrix = <<>>
    /\ force_matrix = <<>> /\ pressure_writes = <<>>
    /\ row = 0 /\ pc = "idle"

ForceNext ==
    \/ SkipRow /\ UNCHANGED <<reflectVars, hexVars>>
    \/ ProcessRow /\ UNCHANGED <<reflectVars, hexVars>>
    \/ Finalize /\ UNCHANGED <<reflectVars, hexVars>>

InitForce == ForceInit /\ ReflectIdle /\ HexIdle

SpecForce == InitForce /\ [][ForceNext]_vars

-----------------------------------------------------------------------------
(* Properties of calculate_force_matrix *)

Returned == pc = "done"

Symmetric(M) == \A i, j \in Cells : M[i][j] = M[j][i]

Ordinary(i) == cell_types[i] # 1

\* the area deficit of cell k split over its neighbours, from the arguments
D(k) == (target_areas[k] - polygon_area(voronoi_vertices(k)))
            \div Cardinality({j \in Cells : adjacency_matrix[k][j]})

\* C1: after all rows are processed, with a symmetric adjacency matrix the
\* pressure matrix is symmetric: pressure[i,j] = pressure[j,i] for all i, j.
C1_PressureSymmetric ==
    (row = num_cells /\ Symmetric(adjacency_matrix)) => Symmetric(pressure_matrix)

\* two adjacent ordinary cells with different deficits got one common value
C1_Witness ==
    /\ Returned
    /\ Symmetric(adjacency_matrix)
    /\ \E i, j \in Cells :
         /\ adjacency_matrix[i][j] /\ Ordinary(i) /\ Ordinary(j)
         /\ D(i) # D(j)
         /\ pressure_matrix[i][j] = pressure_matrix[j][i]
         /\ pressure_matrix[i][j] # 0

\* C2: with a symmetric adjacency matrix, the pressure entries of each
\* adjacent pair of ordinary cells i < j are written exactly once, by row i,
\* and row j does not write them again.
C2_WrittenOnceByLowerRow ==
    (Returned /\ Symmetric(adjacency_matrix)) =>
        \A i, j \in Cells :
            (i < j /\ adjacency_matrix[i][j] /\ Ordinary(i) /\ Ordinary(j)) =>
                /\ pressure_writes[i][j] = <<i>>
                /\ pressure_writes[j][i] = <<i>>

\* C3 as claimed: for a boundary-type cell i no pressure enters force[i,j]:
\* force[i,j] is the spring value times the unit vector only, and the
\* pressure entry of every neighbour j of i is zero.
C3_BoundaryRowNoPressure ==
    Returned =>
        \A i, j \in Cells :
            cell_types[i] = 1 =>
                /\ adjacency_matrix[i][j] => pressure_matrix[i][j] = 0
                /\ force_matrix[i][j] =
                     << spring_matrix[i][j] * unit_vector_matrix[i][j][1],
                        spring_matrix[i][j] * unit_vector_matrix[i][j][2] >>

\* C3 as amended: the row of a boundary-type cell i writes no pressure of its
\* own; pressure[i,j] is the split deficit D(j) of j when j is an ordinary
\* cell that has i in its adjacency row, and zero otherwise, and that value
\* enters force[i,j].
C3_BoundaryPressureFromNeighbourOnly ==
    Returned =>
        \A i, j \in Cells :
            cell_types[i] = 1 =>
                LET p == IF Ordinary(j) /\ adjacency_matrix[j][i]
                         THEN D(j) ELSE 0
                IN  /\ pressure_matrix[i][j] = p
                    /\ force_matrix[i][j] =
                         << (spring_matrix[i][j] + p) * unit_vector_matrix[i][j][1],
                            (spring_matrix[i][j] + p) * unit_vector_matrix[i][j][2] >>

\* a boundary-type cell adjacent to an ordinary cell (both ways) carries the
\* ordinary cell's pressure in its force entry
C3_Witness ==
    /\ Returned
    /\ \E i, j \in Cells :
         /\ cell_types[i] = 1 /\ Ordinary(j)
         /\ adjacency_matrix[i][j] /\ adjacency_matrix[j][i]
         /\ pressure_matrix[i][j] = D(j) /\ D(j) # 0
         /\ force_matrix[i][j] #
              << spring_matrix[i][j] * unit_vector_matrix[i][j][1],
                 spring_matrix[i][j] * unit_vector_matrix[i][j][2] >>

\* C6: damping before clipping, by the source cell's type only: for adjacent
\* (i,j) the final spring value is max(-critical_length_delta, k_i * (target
\* length - distance)), k_i = 0.1 for a boundary-type i and 1 otherwise; so
\* it is >= -critical_length_delta and unchanged by the clip when above it.
C6_DampThenClip ==
    Returned =>
        \A i, j \in Cells :
            adjacency_matrix[i][j] =>
                LET raw == target_spring_length - Distance(i, j)
                    damped == IF cell_types[i] = 1 THEN raw \div 10 ELSE raw
                IN  /\ spring_matrix[i][j] = Max(-critical_length_delta, damped)
                    /\ spring_matrix[i][j] >= -critical_length_delta
                    /\ (damped > -critical_length_delta =>
                            spring_matrix[i][j] = damped)

\* a boundary-type cell keeps its damped negative value next to an ordinary
\* neighbour whose equal raw value is clipped
C6_Witness ==
    /\ Returned
    /\ \E i, j \in Cells :
         /\ cell_types[i] = 1 /\ Ordinary(j)
         /\ adjacency_matrix[i][j] /\ adjacency_matrix[j][i]
         /\ target_spring_length - Distance(i, j) < -critical_length_delta
         /\ spring_matrix[i][j] = (target_spring_length - Distance(i, j)) \div 10
         /\ spring_matrix[i][j] > -critical_length_delta
         /\ spring_matrix[j][i] = -critical_length_delta

\* C7: for every adjacency matrix, force[i,j] is the zero vector and
\* distance[i,j] is 0 wherever adjacency[i,j] is false; a cell without
\* neighbours has all-zero force and distance rows.
C7_ZeroWhereNoEdge ==
    Returned =>
        \A i, j \in Cells :
            ~adjacency_matrix[i][j] =>
                /\ force_matrix[i][j] = <<0, 0>>
                /\ distance_matrix[i][j] = 0

\* a cell without neighbours that an ordinary cell lists as its neighbour:
\* it has a pressure entry, and still all-zero force and distance rows
C7_Witness ==
    /\ Returned
    /\ \E i, j \in Cells :
         /\ \A k \in Cells : ~adjacency_matrix[i][k]
         /\ adjacency_matrix[j][i] /\ Ordinary(j)
         /\ pressure_matrix[i][j] # 0
         /\ \A k \in Cells : force_matrix[i][k] = <<0, 0>>
         /\ \A k \in Cells : distance_matrix[i][k] = 0

\* the rows that write the pressure entries of the pair {i, j}
Writers(i, j) ==
    {k \in {i, j} : Ordinary(k) /\ adjacency_matrix[k][IF k = i THEN j ELSE i]}

SetMax(S) == CHOOSE m \in S : \A k \in S : k <= m

\* C9: the last row that writes a pair decides it: pressure[i,j] is D(m) for
\* the highest-indexed cell m of {i,j} that is not boundary-type and has the
\* other cell in its adjacency row, and 0 when there is no such cell.
C9_LastWriterWins ==
    Returned =>
        \A i, j \in Cells :
            i # j =>
                pressure_matrix[i][j] =
                    IF Writers(i, j) = {} THEN 0 ELSE D(SetMax(Writers(i, j)))

\* two mutually adjacent ordinary cells i < j with different deficits: both
\* entries hold D(j) and D(i) is discarded
C9_Witness ==
    /\ Returned
    /\ \E i, j \in Cells :
         /\ i < j /\ Ordinary(i) /\ Ordinary(j)
         /\ adjacency_matrix[i][j] /\ adjacency_matrix[j][i]
         /\ D(i) # D(j)
         /\ pressure_matrix[i][j] = D(j) /\ pressure_matrix[j][i] = D(j)
         /\ pressure_writes[i][j] = <<i, j>>

-----------------------------------------------------------------------------
(* calculate_boundary_reflection                                           *)
(*                                                                         *)
(* a and b are integer points <<x, y>>.  c and the reflected point are     *)
(* rational points <<X, Y, Q>>, standing for (X/Q, Y/Q) with Q > 0, in     *)
(* lowest terms.  The norms are positive reals that are only divided by,   *)
(* so the model keeps whether they vanish and the sign of the cosine.      *)

RECURSIVE GCD(_, _)
GCD(m, n) == IF n = 0 THEN Abs(m) ELSE GCD(n, m % n)

\* the rational point <<X, Y, Q>> in lowest terms
Normalize(p) ==
    LET g == GCD(GCD(Abs(p[1]), Abs(p[2])), p[3])
    IN  << p[1] \div g, p[2] \div g, p[3] \div g >>

\* np.dot
Dot(u, v) == u[1] * v[1] + u[2] * v[2]

\* c - a (and c - b), times the denominator of c
Minus(p, q) == << p[1] - q[1] * p[3], p[2] - q[2] * p[3] >>

\* ac_dot_bc, times the squared denominator of c
AcDotBc(pa, pb, pc0) == Dot(Minus(pc0, pa), Minus(pc0, pb))

\* ac_norm * bc_norm = 0: the scalar division of line 91 raises
NormProductZero(pa, pb, pc0) ==
    Minus(pc0, pa) = <<0, 0>> \/ Minus(pc0, pb) = <<0, 0>>

\* faulty variant of AngleCosNegative: only points on the right of the directed edge
AngleCosNegativeOneSide(pa, pb, pc0) ==
    /\ AcDotBc(pa, pb, pc0) < 0
    /\ (pb[1] - pa[1]) * Minus(pc0, pa)[2]
         - (pb[2] - pa[2]) * Minus(pc0, pa)[1] < 0

\* angle_cos < 0, for non-zero norms
AngleCosNegative(pa, pb, pc0) == AcDotBc(pa, pb, pc0) < 0

\* faulty variant of ReflectedPoint: 2 * a + projection_vector - c
ReflectedPointHalfProjection(pa, pb, pc0) ==
    LET q == pc0[3]
        edge_vector == << pb[1] - pa[1], pb[2] - pa[2] >>
        l2 == Dot(edge_vector, edge_vector)
        t == Dot(Minus(pc0, pa), edge_vector)
    IN  Normalize(<< 2 * pa[1] * q * l2 + t * edge_vector[1] - pc0[1] * l2,
                     2 * pa[2] * q * l2 + t * edge_vector[2] - pc0[2] * l2,
                     q * l2 >>)

\* lines 93-100: 2 * (a + projection_vector) - c, where projection_vector is
\* (ac . edge_vector) * edge_vector / |edge_vector|^2
ReflectedPoint(pa, pb, pc0) ==
    LET q == pc0[3]
        edge_vector == << pb[1] - pa[1], pb[2] - pa[2] >>
        l2 == Dot(edge_vector, edge_vector)
        t == Dot(Minus(pc0, pa), edge_vector)
    IN  Normalize(<< 2 * (pa[1] * q * l2 + t * edge_vector[1]) - pc0[1] * l2,
                     2 * (pa[2] * q * l2 + t * edge_vector[2]) - pc0[2] * l2,
                     q * l2 >>)

\* np.empty_like(a): an uninitialised array, any contents
Uninitialised == { <<0, 0, 1>>, <<7, -3, 1>> }

Grid == (0..MaxX) \X (-MaxY..MaxY)

ReflectInit ==
    /\ a \in Grid
    /\ b \in Grid
    /\ \E p \in Grid : c = <<p[1], p[2], 1>>
    /\ reflected = FALSE
    /\ reflected_point = <<0, 0, 1>>
    /\ previous_c = <<0, 0, 1>>
    /\ calls = 0
    /\ rpc = "call"

\* lines 85-103: one call
Reflect ==
    /\ rpc = "call"
    /\ calls' = calls + 1
    /\ IF NormProductZero(a, b, c)
       THEN /\ rpc' = "ZeroDivisionError"
            /\ UNCHANGED <<reflected, reflected_point>>
       ELSE /\ rpc' = "returned"
            /\ IF AngleCosNegative(a, b, c)
               THEN /\ reflected' = TRUE
                    /\ reflected_point' = ReflectedPoint(a, b, c)
               ELSE /\ reflected' = FALSE
                    /\ reflected_point' \in Uninitialised
    /\ UNCHANGED <<a, b, c, previous_c>>

\* the caller passes a reflected point to the same edge again
CallAgain ==
    /\ rpc = "returned"
    /\ reflected
    /\ calls < MaxCalls
    /\ previous_c' = c
    /\ c' = reflected_point
    /\ rpc' = "call"
    /\ UNCHANGED <<a, b, reflected, reflected_point, calls>>

ReflectNext ==
    \/ Reflect /\ UNCHANGED <<forceVars, hexVars>>
    \/ CallAgain /\ UNCHANGED <<forceVars, hexVars>>

InitReflect == ReflectInit /\ ForceIdle /\ HexIdle

SpecReflect == InitReflect /\ [][ReflectNext]_vars

-----------------------------------------------------------------------------
(* Properties of calculate_boundary_reflection *)

\* C4 as claimed: for a=(0,0), b=(10,0), c=(5,-1) returns (true, (5,1)) and
\* c=(5,1) returns the flag false.
C4_SidesDistinguished ==
    (rpc = "returned" /\ a = <<0, 0>> /\ b = <<10, 0>>) =>
        /\ (c = <<5, -1, 1>> => reflected /\ reflected_point = <<5, 1, 1>>)
        /\ (c = <<5, 1, 1>> => ~reflected)

\* C4 as amended: for a=(0,0), b=(10,0), both c=(5,-1) and c=(5,1) are
\* reflected: (5,-1) returns (true, (5,1)) and (5,1) returns (true, (5,-1)).
C4_BothSidesReflected ==
    (rpc = "returned" /\ a = <<0, 0>> /\ b = <<10, 0>>) =>
        /\ (c = <<5, -1, 1>> => reflected /\ reflected_point = <<5, 1, 1>>)
        /\ (c = <<5, 1, 1>> => reflected /\ reflected_point = <<5, -1, 1>>)

\* the first call with the point above the edge has returned
C4_Witness ==
    /\ rpc = "returned" /\ calls = 1
    /\ a = <<0, 0>> /\ b = <<10, 0>> /\ c = <<5, 1, 1>>
    /\ reflected /\ reflected_point = <<5, -1, 1>>

\* the rational n / d in lowest terms
Fraction(n, d) == << n \div GCD(Abs(n), d), d \div GCD(Abs(n), d) >>

\* (p - a) . (p - b) as a rational
DotAt(p) == Fraction(AcDotBc(a, b, p), p[3] * p[3])

\* C10: for non-degenerate a, b, c the call returns, with the flag true
\* exactly when (c-a).(c-b) < 0, whatever the side of the edge; a reflected
\* point c' has (c'-a).(c'-b) = (c-a).(c-b) < 0, and the call on c' returns
\* (true, c).
C10_ReflectionInvolution ==
    /\ (rpc # "call" /\ c # <<a[1], a[2], 1>> /\ c # <<b[1], b[2], 1>>) =>
            rpc = "returned"
    /\ rpc = "returned" => (reflected <=> AcDotBc(a, b, c) < 0)
    /\ (rpc = "returned" /\ reflected) =>
            /\ DotAt(reflected_point) = DotAt(c)
            /\ DotAt(reflected_point)[1] < 0
    /\ (rpc = "returned" /\ calls >= 2) =>
            /\ reflected
            /\ reflected_point = previous_c

\* a point off the edge's line was reflected to the other side and back
C10_Witness ==
    /\ rpc = "returned" /\ calls = 2
    /\ reflected
    /\ c # previous_c
    /\ reflected_point = previous_c
    /\ a[2] # b[2] /\ a[1] # b[1]

-----------------------------------------------------------------------------
(* hexagonal_grid_layout                                                   *)
(*                                                                         *)
(* The centre is the point <<0, 0>>; a point of ring i is <<i, u>>, which  *)
(* stands for (cx + i * cos(angle), cy + i * sin(angle)) with              *)
(* angle = u * pi / (3 * i).                                               *)

\* int(np.floor(nan)): the conversion of NaN is undefined; the value is the
\* most negative integer (x86-64) or zero (AArch64)
NaNToInt == { -2147483647, 0 }

\* int(np.floor(1 / 2 + np.sqrt(12 * num_cells - 3) / 6)):
\* the largest r with 6 * r - 3 <= sqrt(12 * num_cells - 3); the square root
\* of a negative number is NaN
NumRings(n) ==
    IF 12 * n - 3 < 0
    THEN NaNToInt
    ELSE { r \in 0..n : /\ (6 * r - 3) * (6 * r - 3) <= 12 * n - 3
                        /\ (6 * r + 3) * (6 * r + 3) > 12 * n - 3 }

\* angle = j * pi / (3 * i), plus pi / (3 * i) when i is even
AngleUnits(i, j) == IF i % 2 = 0 THEN j + 1 ELSE j

HexInit ==
    /\ h_num_cells \in (-2)..MaxNumCells
    /\ num_rings = 0
    /\ points = <<>>
    /\ ring = 0
    /\ spoke = 0
    /\ hpc = "start"

\* lines 108-114: the ring count and the centre point
HexStart ==
    /\ hpc = "start"
    /\ num_rings' \in NumRings(h_num_cells)
    /\ points' = << <<0, 0>> >>
    /\ ring' = 1
    /\ spoke' = 0
    /\ hpc' = "rings"
    /\ UNCHANGED h_num_cells

\* lines 116-123: one iteration of the inner loop
HexAppend ==
    /\ hpc = "rings"
    /\ ring <= num_rings
    /\ points' = Append(points, <<ring, AngleUnits(ring, spoke)>>)
    /\ IF spoke + 1 < 6 * ring
       THEN spoke' = spoke + 1 /\ ring' = ring
       ELSE spoke' = 0 /\ ring' = ring + 1
    /\ UNCHANGED <<h_num_cells, num_rings, hpc>>

\* line 125
HexReturn ==
    /\ hpc = "rings"
    /\ ring > num_rings
    /\ hpc' = "done"
    /\ UNCHANGED <<h_num_cells, num_rings, points, ring, spoke>>

HexNext ==
    \/ HexStart /\ UNCHANGED <<forceVars, reflectVars>>
    \/ HexAppend /\ UNCHANGED <<forceVars, reflectVars>>
    \/ HexReturn /\ UNCHANGED <<forceVars, reflectVars>>

InitHex == HexInit /\ ForceIdle /\ ReflectIdle

SpecHex == InitHex /\ [][HexNext]_vars

-----------------------------------------------------------------------------
(* Properties of hexagonal_grid_layout *)

\* the number of points of the centre and r rings
HexNumber(r) == 1 + 3 * r * (r + 1)

\* C5: for num_cells >= 1 the ring count r is the smallest r with
\* 1 + 3r(r+1) >= num_cells and exactly 1 + 3r(r+1) points are returned;
\* num_cells = 7 gives 1 ring and 7 points, num_cells = 19 gives 2 rings and
\* 19 points.
C5_RingsNeeded ==
    (hpc = "done" /\ h_num_cells >= 1) =>
        /\ HexNumber(num_rings) >= h_num_cells
        /\ \A r \in 0..(num_rings - 1) : HexNumber(r) < h_num_cells
        /\ Len(points) = HexNumber(num_rings)
        /\ (h_num_cells = 7 => num_rings = 1 /\ Len(points) = 7)
        /\ (h_num_cells = 19 => num_rings = 2 /\ Len(points) = 19)

\* C8: a call with num_cells < 1 ends in an invalid-argument error and
\* returns no point sequence, not even the centre point.
C8_RejectsNonPositive ==
    (h_num_cells < 1 /\ hpc # "start") =>
        /\ hpc = "InvalidArgument"
        /\ points = <<>>

====
